---- MODULE Spec2Model ----
(***************************************************************************)
(* A model of bev::basic_string_view<char> (include/bev/string_view.hpp).  *)
(*                                                                         *)
(* size_t is 64 bits wide in the only configuration the header supports.   *)
(* A size_t (and an address) is modelled at its full width as a tuple of   *)
(* four 16-bit limbs, least significant limb first, so that the wrap of    *)
(* unsigned subtraction, npos and the clamp of s_compare to the range of   *)
(* int are the ones of the code.                                           *)
(***************************************************************************)
EXTENDS Integers, Sequences, FiniteSets, TLC

VARIABLES mem, v, last, orig

vars == <<mem, v, last, orig>>

----------------------------------------------------------------------------
(* Bounds of the model. *)

\* number of characters of the small buffer in front of its terminator
SmallLen == 2


----------------------------------------------------------------------------
(* 64-bit unsigned arithmetic on limbs. *)

LimbBase == 2^16

\* the size_t with value n, for 0 <= n < 2^31
U(n) == <<n % LimbBase, n \div LimbBase, 0, 0>>

\* the value of a size_t known to be below 2^31
ToNat(a) == a[1] + a[2] * LimbBase

Add64(a, b) ==
  LET s1 == a[1] + b[1]
      s2 == a[2] + b[2] + (s1 \div LimbBase)
      s3 == a[3] + b[3] + (s2 \div LimbBase)
      s4 == a[4] + b[4] + (s3 \div LimbBase)
  IN  <<s1 % LimbBase, s2 % LimbBase, s3 % LimbBase, s4 % LimbBase>>

Not64(a) ==
  <<LimbBase - 1 - a[1], LimbBase - 1 - a[2],
    LimbBase - 1 - a[3], LimbBase - 1 - a[4]>>

Neg64(a) == Add64(Not64(a), U(1))

Sub64(a, b) == Add64(a, Neg64(b))

Lt64(a, b) ==
  \/ a[4] < b[4]
  \/ a[4] = b[4] /\ a[3] < b[3]
  \/ a[4] = b[4] /\ a[3] = b[3] /\ a[2] < b[2]
  \/ a[4] = b[4] /\ a[3] = b[3] /\ a[2] = b[2] /\ a[1] < b[1]

Le64(a, b) == a = b \/ Lt64(a, b)

Min64(a, b) == IF Lt64(b, a) THEN b ELSE a

RECURSIVE LimbAnd(_, _, _)
LimbAnd(x, y, bits) ==
  IF bits = 0 \/ x = 0 \/ y = 0 THEN 0
  ELSE IF x = LimbBase - 1 THEN y
  ELSE IF y = LimbBase - 1 THEN x
  ELSE (x % 2) * (y % 2) + 2 * LimbAnd(x \div 2, y \div 2, bits - 1)

And64(a, b) ==
  <<LimbAnd(a[1], b[1], 16), LimbAnd(a[2], b[2], 16),
    LimbAnd(a[3], b[3], 16), LimbAnd(a[4], b[4], 16)>>

Or64(a, b) == Not64(And64(Not64(a), Not64(b)))

\* the sign bit of a size_t converted to ptrdiff_t
IsNegative64(a) == a[4] >= LimbBase \div 2

----------------------------------------------------------------------------
(* Constants of the program. *)

\* sizeof(size_t): only 64-bit size_t is supported
SizeofSizeT == 8

\* std::numeric_limits<int>::max()
IntMax == 2147483647

\* std::numeric_limits<int>::min()
IntMin == (-IntMax) - 1

\* static constexpr size_type npos = size_type(-1)
npos == Not64(U(0))

\* static const size_t safederef_flag_mask = 1ull << (sizeof(size_t)-1)
safederef_flag_mask == U(2^(SizeofSizeT - 1))

set_safederef_bit(x) == Or64(x, safederef_flag_mask)

clear_safederef_bit(x) == And64(x, Not64(safederef_flag_mask))

test_safederef_bit(x) == And64(x, safederef_flag_mask) # U(0)

----------------------------------------------------------------------------
(* The memory the views refer to.  Address 0 is the null pointer.  The     *)
(* small buffer is the array at addresses 1..SmallLen+1: SmallLen          *)
(* characters chosen at the start, then a terminator.  The large buffer    *)
(* starts at BigBase and holds BigLen characters FillChar, then a          *)
(* terminator; it is long enough for two lengths to differ by more than    *)
(* the range of int.                                                       *)

Char == {0, 1}

FillChar == CHOOSE c \in Char : c # 0

nullptr == U(0)

SmallBase == U(1)

SmallEnd == U(SmallLen + 1)

BigBase == U(SmallLen + 3)

BigLen == Add64(U(IntMax), U(2))

BigEnd == Add64(BigBase, BigLen)

InSmall(a) == Le64(SmallBase, a) /\ Le64(a, SmallEnd)

InBig(a) == Le64(BigBase, a) /\ Le64(a, BigEnd)

\* the address holds a character of one of the two arrays
Readable(a) == InSmall(a) \/ InBig(a)

\* *a, for a readable address
Deref(a) ==
  IF InSmall(a) THEN (IF a = SmallEnd THEN 0 ELSE mem[ToNat(a)])
  ELSE IF a = BigEnd THEN 0 ELSE FillChar

\* [p, p+n) lies within one array
RangeReadable(p, n) ==
  \/ n = U(0)
  \/ InSmall(p) /\ Le64(n, Sub64(Add64(SmallEnd, U(1)), p))
  \/ InBig(p) /\ Le64(n, Sub64(Add64(BigEnd, U(1)), p))

----------------------------------------------------------------------------
(* std::char_traits<char>, as the header uses it. *)

\* traits_type::length(p): the number of characters in front of the first
\* zero character at or after p
RECURSIVE TraitsLength(_)
TraitsLength(p) ==
  IF Deref(p) = 0 THEN U(0) ELSE Add64(TraitsLength(Add64(p, U(1))), U(1))

\* a traits_type::compare that tells a difference but not its direction
RECURSIVE TraitsCompare_unordered(_, _, _)
TraitsCompare_unordered(p, q, n) ==
  IF n = 0 THEN 0
  ELSE IF Deref(p) # Deref(q) THEN 1
  ELSE TraitsCompare_unordered(Add64(p, U(1)), Add64(q, U(1)), n - 1)

\* traits_type::compare(p, q, n): -1, 0 or 1 by the first of the n character
\* pairs that differs
RECURSIVE TraitsCompare(_, _, _)
TraitsCompare(p, q, n) ==
  IF n = 0 THEN 0
  ELSE IF Deref(p) < Deref(q) THEN -1
  ELSE IF Deref(q) < Deref(p) THEN 1
  ELSE TraitsCompare(Add64(p, U(1)), Add64(q, U(1)), n - 1)

----------------------------------------------------------------------------
(* basic_string_view: the members len_ and str_ and the operations. *)

\* basic_string_view()
basic_string_view_default == [len |-> U(0), str |-> nullptr]

\* basic_string_view(const CharT* str)
basic_string_view_cstr(str) ==
  [len |-> set_safederef_bit(TraitsLength(str)), str |-> str]

\* basic_string_view(const CharT* str, size_type len)
basic_string_view_ptr_len(str, len) == [len |-> len, str |-> str]

\* basic_string_view(const CharT* str, size_type len, can_test_safederef)
basic_string_view_safederef(str, len) ==
  [len |-> set_safederef_bit(len), str |-> str]

length(x) == clear_safederef_bit(x.len)

size(x) == length(x)

data(x) == x.str

empty(x) == length(x) = U(0)

\* end(): the address one past the last character
end(x) == Add64(x.str, length(x))

is_cstring(x) ==
  IF test_safederef_bit(x.len)
  THEN Deref(Add64(x.str, length(x))) # 0
  ELSE FALSE

\* at(pos) throws when pos >= length()
at_throws(x, pos) == ~Lt64(pos, length(x))

at(x, pos) == Deref(Add64(x.str, pos))

\* remove_prefix(n): str_ += n; the statement "this->length() -= n" names
\* the value length() returns, not the member, so len_ is never written
remove_prefix(x, n) == [len |-> x.len, str |-> Add64(x.str, n)]

\* remove_suffix(n): "this->length() -= n" only; len_ is never written
remove_suffix(x, n) == [len |-> x.len, str |-> x.str]

\* substr(pos, n) throws nothing: the header has no check of pos
substr_throws(x, pos, n) == FALSE

substr(x, pos, n) ==
  LET rlen == Min64(n, Sub64(length(x), pos))
  IN  IF test_safederef_bit(x.len)
      THEN basic_string_view_safederef(Add64(x.str, pos), rlen)
      ELSE basic_string_view_ptr_len(Add64(x.str, pos), rlen)

\* an s_compare without the clamp: static_cast<int>(n1 - n2) alone, which
\* keeps the low 32 bits of the difference
s_compare_unclamped(n1, n2) ==
  LET diff == Sub64(n1, n2)
  IN  IF diff[2] >= LimbBase \div 2
      THEN diff[1] + (diff[2] - LimbBase) * LimbBase
      ELSE diff[1] + diff[2] * LimbBase

\* the difference between n1 and n2, clamped to the range of int
s_compare(n1, n2) ==
  LET diff == Sub64(n1, n2)
      mag  == Neg64(diff)
  IN  IF ~IsNegative64(diff)
      THEN (IF Lt64(U(IntMax), diff) THEN IntMax ELSE ToNat(diff))
      ELSE (IF Lt64(U(IntMax), mag) THEN IntMin ELSE -ToNat(mag))

\* the number of characters compare(str) hands to traits_type::compare
compare_rlen(x, y) == Min64(length(x), length(y))

compare(x, y) ==
  LET rlen == compare_rlen(x, y)
      ret  == TraitsCompare(x.str, y.str, ToNat(rlen))
  IN  IF ret = 0 THEN s_compare(length(x), length(y)) ELSE ret

\* compare(pos1, n1, str)
compare_sub(x, pos1, n1, y) == compare(substr(x, pos1, n1), y)

\* an operator== that compares len_, flag bit included, instead of size()
op_eq_raw_len(x, y) == x.len = y.len /\ compare(x, y) = 0

\* operator==
op_eq(x, y) == size(x) = size(y) /\ compare(x, y) = 0

\* operator!=
op_ne(x, y) == ~op_eq(x, y)

----------------------------------------------------------------------------
(* basic_string_view: searching. *)

\* a loop of find whose bound is pos < length() - n: it misses the last place
RECURSIVE find_loop_short(_, _, _, _)
find_loop_short(x, str, pos, n) ==
  IF Lt64(pos, Sub64(length(x), n))
  THEN IF /\ Deref(Add64(x.str, pos)) = Deref(str)
          /\ TraitsCompare(Add64(Add64(x.str, pos), U(1)), Add64(str, U(1)),
                           ToNat(n) - 1) = 0
       THEN pos
       ELSE find_loop_short(x, str, Add64(pos, U(1)), n)
  ELSE npos

\* find(str, pos, n): for (; pos <= length() - n; ++pos) ... return npos
RECURSIVE find_loop(_, _, _, _)
find_loop(x, str, pos, n) ==
  IF Le64(pos, Sub64(length(x), n))
  THEN IF /\ Deref(Add64(x.str, pos)) = Deref(str)
          /\ TraitsCompare(Add64(Add64(x.str, pos), U(1)), Add64(str, U(1)),
                           ToNat(n) - 1) = 0
       THEN pos
       ELSE find_loop(x, str, Add64(pos, U(1)), n)
  ELSE npos

\* find(const CharT* str, size_type pos, size_type n)
find(x, str, pos, n) ==
  IF n = U(0) THEN (IF Le64(pos, length(x)) THEN pos ELSE npos)
  ELSE IF Le64(n, length(x)) THEN find_loop(x, str, pos, n)
  ELSE npos

\* the addresses of the view that find(str, pos, n) reads
RECURSIVE find_loop_reads(_, _, _, _)
find_loop_reads(x, str, pos, n) ==
  IF Le64(pos, Sub64(length(x), n))
  THEN IF Deref(Add64(x.str, pos)) = Deref(str)
       THEN IF TraitsCompare(Add64(Add64(x.str, pos), U(1)), Add64(str, U(1)),
                             ToNat(n) - 1) = 0
            THEN {Add64(Add64(x.str, pos), U(i)) : i \in 0..(ToNat(n) - 1)}
            ELSE {Add64(Add64(x.str, pos), U(i)) : i \in 0..(ToNat(n) - 1)}
                   \cup find_loop_reads(x, str, Add64(pos, U(1)), n)
       ELSE {Add64(x.str, pos)} \cup find_loop_reads(x, str, Add64(pos, U(1)), n)
  ELSE {}

find_reads(x, str, pos, n) ==
  IF n = U(0) THEN {}
  ELSE IF Le64(n, length(x)) THEN find_loop_reads(x, str, pos, n)
  ELSE {}

\* find(basic_string_view str, size_type pos)
find_sv(x, y, pos) == find(x, y.str, pos, length(y))

\* a loop of rfind that stops in front of index 0: while (--pos > 0)
RECURSIVE rfind_loop_skip0(_, _, _, _)
rfind_loop_skip0(x, str, pos, n) ==
  IF TraitsCompare(Add64(x.str, pos), str, ToNat(n)) = 0 THEN pos
  ELSE IF Lt64(U(1), pos) THEN rfind_loop_skip0(x, str, Sub64(pos, U(1)), n)
  ELSE npos

\* rfind(str, pos, n): do { ... } while (pos-- > 0); return npos
RECURSIVE rfind_loop(_, _, _, _)
rfind_loop(x, str, pos, n) ==
  IF TraitsCompare(Add64(x.str, pos), str, ToNat(n)) = 0 THEN pos
  ELSE IF Lt64(U(0), pos) THEN rfind_loop(x, str, Sub64(pos, U(1)), n)
  ELSE npos

\* rfind(const CharT* str, size_type pos, size_type n)
rfind(x, str, pos, n) ==
  IF Le64(n, length(x))
  THEN rfind_loop(x, str, Min64(Sub64(length(x), n), pos), n)
  ELSE npos

\* rfind(basic_string_view str, size_type pos)
rfind_sv(x, y, pos) == rfind(x, y.str, pos, length(y))


----------------------------------------------------------------------------
(* The hash of a view: namespace detail and std::hash.  A size_t is split  *)
(* into its eight bytes, least significant first, to multiply.             *)

Bytes64(a) ==
  <<a[1] % 256, a[1] \div 256, a[2] % 256, a[2] \div 256,
    a[3] % 256, a[3] \div 256, a[4] % 256, a[4] \div 256>>

FromBytes64(b) ==
  <<b[1] + 256 * b[2], b[3] + 256 * b[4], b[5] + 256 * b[6], b[7] + 256 * b[8]>>

\* the sum of the byte products x[i] * y[k + 1 - i], i in 1..k
RECURSIVE MulColumn(_, _, _, _)
MulColumn(x, y, k, i) ==
  IF i > k THEN 0 ELSE x[i] * y[k + 1 - i] + MulColumn(x, y, k, i + 1)

\* the bytes k..8 of the product, given the carry into byte k
RECURSIVE MulBytes(_, _, _, _)
MulBytes(x, y, k, carry) ==
  IF k > 8 THEN <<>>
  ELSE LET s == MulColumn(x, y, k, 1) + carry
       IN  <<s % 256>> \o MulBytes(x, y, k + 1, s \div 256)

\* a * b on size_t: the product modulo 2^64
Mul64(a, b) ==
  IF a = U(0) \/ b = U(0) THEN U(0)
  ELSE FromBytes64(MulBytes(Bytes64(a), Bytes64(b), 1, 0))

LimbXor(x, y) == x + y - 2 * LimbAnd(x, y, 16)

\* a ^ b on size_t
Xor64(a, b) ==
  <<LimbXor(a[1], b[1]), LimbXor(a[2], b[2]),
    LimbXor(a[3], b[3]), LimbXor(a[4], b[4])>>

\* a << 8 on size_t
Shl8(a) ==
  LET b == Bytes64(a)
  IN  FromBytes64(<<0, b[1], b[2], b[3], b[4], b[5], b[6], b[7]>>)

\* a >> 47 on size_t: the bits 47..63
Shr47(a) ==
  <<(a[3] \div 2^15) + 2 * (a[4] % 2^15), a[4] \div 2^15, 0, 0>>

\* unaligned_load_(p): the eight bytes at p as a size_t of the target, whose
\* least significant byte comes first
unaligned_load_(p) ==
  FromBytes64([i \in 1..8 |-> Deref(Add64(p, U(i - 1)))])

\* load_bytes_(p, n), 1 <= n < 8: the loop, n already decremented
RECURSIVE load_bytes_loop(_, _, _)
load_bytes_loop(p, n, result) ==
  LET r == Add64(Shl8(result), U(Deref(Add64(p, U(n)))))
  IN  IF n - 1 >= 0 THEN load_bytes_loop(p, n - 1, r) ELSE r

load_bytes_(p, n) == load_bytes_loop(p, n - 1, U(0))

shift_mix_(x) == Xor64(x, Shr47(x))

\* mul = (0xc6a4a793 << 32) + 0x5bd1e995
mul == <<59797, 23505, 42899, 50852>>

\* hash_bytes_: the loop over the 8-byte words from p up to end
RECURSIVE hash_bytes_loop(_, _, _)
hash_bytes_loop(p, end_, hash) ==
  IF p = end_ THEN hash
  ELSE LET data_ == Mul64(shift_mix_(Mul64(unaligned_load_(p), mul)), mul)
       IN  hash_bytes_loop(Add64(p, U(8)), end_, Mul64(Xor64(hash, data_), mul))

\* hash_bytes_(ptr, len, seed)
hash_bytes_(ptr, len, seed) ==
  LET len_aligned == And64(len, Not64(U(7)))
      end_ == Add64(ptr, len_aligned)
      h0 == Xor64(seed, Mul64(len, mul))
      h1 == hash_bytes_loop(ptr, end_, h0)
      h2 == IF And64(len, U(7)) # U(0)
            THEN Mul64(Xor64(h1, load_bytes_(end_, ToNat(And64(len, U(7))))), mul)
            ELSE h1
      h3 == Mul64(shift_mix_(h2), mul)
  IN  shift_mix_(h3)

\* sizeof(CharT) for CharT = char
SizeofCharT == 1

\* std::hash<basic_string_view<CharT>>::operator()(str): the call
\* hash_bytes_(str.str_, str.length()*sizeof(CharT)) hands over a pointer and
\* a length and no seed, and hash_bytes_ declares no default for it; seed is
\* what hash_bytes_ then takes as its third argument
hash_sv(x, seed) == hash_bytes_(x.str, Mul64(length(x), U(SizeofCharT)), seed)

---------------------------------------------------------------------------------------------------------------------------------------------------
(* The inputs of the operations. *)

\* positions and counts up to one past the size of the small array
PosArgs == {U(i) : i \in 0..(SmallLen + 1)}

\* counts: none, one, the value of the flag mask, and npos
CountArgs == {U(0), U(1), safederef_flag_mask, npos}

SmallPtrs == {U(a) : a \in 1..(SmallLen + 1)}

\* the lengths a caller hands over with a pointer
LenArgs ==
  PosArgs \cup {safederef_flag_mask, Add64(safederef_flag_mask, safederef_flag_mask), BigLen}

\* a (pointer, length) pair a caller may hand over: [p, p+len) is readable
PtrLenArgs ==
  {pl \in {SmallBase, BigBase} \X LenArgs : RangeReadable(pl[1], pl[2])}

PtrLenViews == {basic_string_view_ptr_len(pl[1], pl[2]) : pl \in PtrLenArgs}

CStrViews == {basic_string_view_cstr(p) : p \in SmallPtrs}

\* the views a caller can construct
ArgViews == {basic_string_view_default} \cup CStrViews \cup PtrLenViews

\* invariant I1 of the view: its characters are readable
Valid(x) == RangeReadable(x.str, length(x))

\* the views the model goes on modifying: of those into the large array,
\* the ones that start at its first character
NearBase(x) == InBig(x.str) => x.str = BigBase

----------------------------------------------------------------------------
(* The state: the memory, one view object v, the record of the call in     *)
(* progress on it (the view before it, the arguments, and what it returned *)
(* or threw; op = "idle" between calls), and the end address and witness v *)
(* was constructed with.                                                   *)

Idle ==
  [op |-> "idle", pre |-> basic_string_view_default, pos |-> U(0), n |-> U(0),
   w |-> basic_string_view_default, ret |-> 0, bret |-> FALSE, thrown |-> FALSE]

Call(op, pre, pos, n, w, ret, bret, thrown) ==
  [op |-> op, pre |-> pre, pos |-> pos, n |-> n, w |-> w,
   ret |-> ret, bret |-> bret, thrown |-> thrown]

\* what is remembered of the construction of v: whether it was constructed
\* from a null-terminated buffer and, if so, the address of the terminator
NoOrigin == [end |-> nullptr, witness |-> FALSE]

Origin(x) == [end |-> end(x), witness |-> TRUE]

Init ==
  /\ mem \in [1..SmallLen -> Char]
  /\ v = basic_string_view_default
  /\ last = Idle
  /\ orig = NoOrigin

\* the caller takes the result of the call and is ready for the next one
Return ==
  /\ last.op # "idle"
  /\ last' = Idle
  /\ UNCHANGED <<mem, v, orig>>

\* v = basic_string_view()
CtorDefault ==
  /\ last.op = "idle"
  /\ v' = basic_string_view_default
  /\ last' = Call("ctor_default", basic_string_view_default, U(0), U(0), basic_string_view_default, 0, FALSE, FALSE)
  /\ orig' = NoOrigin
  /\ UNCHANGED mem

\* v = basic_string_view(p), p a null-terminated buffer
CtorCStr ==
  \E p \in SmallPtrs :
    /\ last.op = "idle"
    /\ v' = basic_string_view_cstr(p)
    /\ last' = Call("ctor_cstr", basic_string_view_default, p, U(0), basic_string_view_default, 0, FALSE, FALSE)
    /\ orig' = Origin(v')
    /\ UNCHANGED mem

\* v = basic_string_view(p, len)
CtorPtrLen ==
  \E pl \in PtrLenArgs :
    /\ last.op = "idle"
    /\ v' = basic_string_view_ptr_len(pl[1], pl[2])
    /\ last' = Call("ctor_ptr_len", basic_string_view_default, pl[1], pl[2], basic_string_view_default, 0, FALSE, FALSE)
    /\ orig' = NoOrigin
    /\ UNCHANGED mem

\* v.is_cstring(); with the flag set it reads str_[length()]
IsCString ==
  /\ last.op = "idle"
  /\ Valid(v)
  /\ test_safederef_bit(v.len) => Readable(end(v))
  /\ last' = Call("is_cstring", v, U(0), U(0), basic_string_view_default, 0, is_cstring(v), FALSE)
  /\ UNCHANGED <<mem, v, orig>>

\* v.at(pos)
At ==
  \E pos \in PosArgs :
    /\ last.op = "idle"
    /\ Valid(v)
    /\ last' = Call("at", v, pos, U(0), basic_string_view_default,
                    IF at_throws(v, pos) THEN 0 ELSE at(v, pos), FALSE, at_throws(v, pos))
    /\ UNCHANGED <<mem, v, orig>>

\* v.remove_prefix(n), under its precondition n <= length()
RemovePrefix ==
  \E n \in PosArgs :
    /\ last.op = "idle"
    /\ NearBase(v)
    /\ Valid(v)
    /\ Le64(n, length(v))
    /\ v' = remove_prefix(v, n)
    /\ last' = Call("remove_prefix", v, U(0), n, basic_string_view_default, 0, FALSE, FALSE)
    /\ UNCHANGED <<mem, orig>>

\* v.remove_suffix(n), under its precondition n <= length()
RemoveSuffix ==
  \E n \in PosArgs :
    /\ last.op = "idle"
    /\ NearBase(v)
    /\ Valid(v)
    /\ Le64(n, length(v))
    /\ v' = remove_suffix(v, n)
    /\ last' = Call("remove_suffix", v, U(0), n, basic_string_view_default, 0, FALSE, FALSE)
    /\ UNCHANGED <<mem, orig>>

\* v = v.substr(pos, n)
Substr ==
  \E pos \in PosArgs, n \in CountArgs :
    /\ last.op = "idle"
    /\ NearBase(v)
    /\ Valid(v)
    /\ v' = IF substr_throws(v, pos, n) THEN v ELSE substr(v, pos, n)
    /\ last' = Call("substr", v, pos, n, basic_string_view_default, 0, FALSE,
                    substr_throws(v, pos, n))
    /\ UNCHANGED <<mem, orig>>

\* the characters compare(x, y) reads are readable, and no more of them
\* than the small array holds
CanCompare(x, y) ==
  /\ RangeReadable(x.str, compare_rlen(x, y))
  /\ RangeReadable(y.str, compare_rlen(x, y))
  /\ Le64(compare_rlen(x, y), U(SmallLen + 1))

\* v.compare(w)
Compare ==
  \E w \in ArgViews :
    /\ last.op = "idle"
    /\ Valid(v)
    /\ CanCompare(v, w)
    /\ last' = Call("compare", v, U(0), U(0), w, compare(v, w), FALSE, FALSE)
    /\ UNCHANGED <<mem, v, orig>>

\* v.compare(pos1, n1, w)
CompareSub ==
  \E pos \in PosArgs, n \in {U(0), npos}, w \in {basic_string_view_cstr(SmallBase)} :
    /\ last.op = "idle"
    /\ Valid(v)
    /\ CanCompare(substr(v, pos, n), w)
    /\ last' = Call("compare_sub", v, pos, n, w,
                    IF substr_throws(v, pos, n) THEN 0 ELSE compare_sub(v, pos, n, w),
                    FALSE, substr_throws(v, pos, n))
    /\ UNCHANGED <<mem, v, orig>>

\* v == w
OpEq ==
  \E w \in ArgViews :
    /\ last.op = "idle"
    /\ Valid(v)
    /\ CanCompare(v, w)
    /\ last' = Call("op_eq", v, U(0), U(0), w, 0, op_eq(v, w), FALSE)
    /\ UNCHANGED <<mem, v, orig>>

\* v != w
OpNe ==
  \E w \in ArgViews :
    /\ last.op = "idle"
    /\ Valid(v)
    /\ CanCompare(v, w)
    /\ last' = Call("op_ne", v, U(0), U(0), w, 0, op_ne(v, w), FALSE)
    /\ UNCHANGED <<mem, v, orig>>

Next ==
  \/ Return
  \/ CtorDefault
  \/ CtorCStr
  \/ CtorPtrLen
  \/ Substr
  \/ RemovePrefix
  \/ RemoveSuffix
  \/ IsCString
  \/ At
  \/ Compare
  \/ CompareSub
  \/ OpEq
  \/ OpNe

Spec == Init /\ [][Next]_vars

----------------------------------------------------------------------------
(* Searching: the constructors, then find and rfind on the constructed     *)
(* view.  The record of a search holds the view, the pattern w, the        *)
(* position argument, the index returned and the addresses read.           *)

SearchCall(op, pre, pos, w, found, reads) ==
  [op |-> op, pre |-> pre, pos |-> pos, w |-> w, found |-> found, reads |-> reads]

\* the position arguments of a search: the small ones and npos, the default
\* of rfind
SearchPosArgs == PosArgs \cup {npos}

\* the view and the pattern are readable, and a search that walks the view
\* walks no more characters than the small array holds
CanSearch(x, y) ==
  /\ Valid(x)
  /\ Valid(y)
  /\ (length(y) # U(0) /\ Le64(length(y), length(x)))
       => Le64(length(x), U(SmallLen + 1))

\* v.find(w, pos)
Find ==
  \E w \in ArgViews, pos \in SearchPosArgs :
    /\ last.op = "idle"
    /\ CanSearch(v, w)
    /\ last' = SearchCall("find", v, pos, w, find_sv(v, w, pos),
                          find_reads(v, w.str, pos, length(w)))
    /\ UNCHANGED <<mem, v, orig>>

\* v.rfind(w, pos)
Rfind ==
  \E w \in ArgViews, pos \in SearchPosArgs :
    /\ last.op = "idle"
    /\ CanSearch(v, w)
    /\ last' = SearchCall("rfind", v, pos, w, rfind_sv(v, w, pos), {})
    /\ UNCHANGED <<mem, v, orig>>

NextSearch ==
  \/ Return
  \/ CtorDefault
  \/ CtorCStr
  \/ CtorPtrLen
  \/ Find
  \/ Rfind

SpecSearch == Init /\ [][NextSearch]_vars

----------------------------------------------------------------------------
(* Hashing: the constructors and substr, then std::hash on the constructed *)
(* view and on a second view w.  The record of the two calls holds the     *)
(* views, the seed each call of hash_bytes_ ran with and the hashes.       *)

HashCall(pre, w, seedpre, seedw, hpre, hw) ==
  [op |-> "hash", pre |-> pre, w |-> w, seedpre |-> seedpre, seedw |-> seedw,
   hpre |-> hpre, hw |-> hw]

\* lengths of one or two 8-byte words, with and without trailing bytes
HashLens == {U(8), U(9), U(17)}

\* views of that length into the large array: basic_string_view(p, len), and
\* the flagged view substr(0, len) makes of a view of the null-terminated
\* large array
LongViews ==
  {basic_string_view_ptr_len(BigBase, n) : n \in HashLens}
    \cup {basic_string_view_safederef(BigBase, n) : n \in HashLens}

HashViews == ArgViews \cup LongViews

\* the bytes hashed are readable, and no more of them than a few words
CanHash(x) ==
  /\ Valid(x)
  /\ Le64(length(x), U(SmallLen + 1)) \/ length(x) \in HashLens

\* the values a call of hash_bytes_ that names no seed may run with
Seeds == {U(0), U(1)}

\* v = a view a few words long
CtorLong ==
  \E w \in LongViews :
    /\ last.op = "idle"
    /\ v' = w
    /\ last' = Call("ctor_long", basic_string_view_default, w.str, w.len, basic_string_view_default, 0, FALSE, FALSE)
    /\ orig' = NoOrigin
    /\ UNCHANGED mem

\* std::hash<string_view>()(v) and std::hash<string_view>()(w)
Hash ==
  \E w \in HashViews, seedpre \in Seeds, seedw \in Seeds :
    /\ last.op = "idle"
    /\ CanHash(v)
    /\ CanHash(w)
    /\ last' = HashCall(v, w, seedpre, seedw, hash_sv(v, seedpre), hash_sv(w, seedw))
    /\ UNCHANGED <<mem, v, orig>>

NextHash ==
  \/ Return
  \/ CtorDefault
  \/ CtorCStr
  \/ CtorPtrLen
  \/ CtorLong
  \/ Substr
  \/ Hash

SpecHash == Init /\ [][NextHash]_vars

----------------------------------------------------------------------------
(* The claims. *)

Sgn(i) == IF i < 0 THEN -1 ELSE IF i > 0 THEN 1 ELSE 0

\* the witness of a view: the flag bit of len_
Witness(x) == test_safederef_bit(x.len)

\* C1: is_cstring() returns true if and only if the witness of the view is
\* set and the character at data()[length()] is the zero character; a view
\* built from a null-terminated buffer reports true.
C1_IsCStringIffTerminated ==
  last.op = "is_cstring" =>
    (last.bret <=> (Witness(last.pre) /\ Deref(end(last.pre)) = 0))

\* C2: for pos <= v.length(), r = v.substr(pos, n) has its witness set if and
\* only if v's witness is set and pos + r.length() = v.length().
C2_SubstrWitness ==
  (last.op = "substr" /\ Le64(last.pos, length(last.pre))) =>
    (Witness(v) <=>
       (Witness(last.pre) /\ Add64(last.pos, length(v)) = length(last.pre)))

\* C3: a view constructed from a pointer and a length len has
\* length() = size() = len and a cleared witness, and its is_cstring() is
\* false, for every len.
C3_PtrLenCtor ==
  last.op = "ctor_ptr_len" =>
    /\ length(v) = last.n
    /\ size(v) = last.n
    /\ ~Witness(v)
    /\ ~is_cstring(v)

\* C4: for pos <= v.length(), v.substr(pos, len) has length
\* min(len, v.length() - pos) and starts at v.data() + pos.
C4_SubstrLength ==
  (last.op = "substr" /\ Le64(last.pos, length(last.pre))) =>
    /\ length(v) = Min64(last.n, Sub64(length(last.pre), last.pos))
    /\ data(v) = Add64(data(last.pre), last.pos)

\* C5: substr(pos, n), and compare(pos, n, str) which delegates to it, fail
\* with an out-of-range condition whenever pos > length(), and substr then
\* produces no view.
C5_SubstrOutOfRange ==
  (last.op \in {"substr", "compare_sub"} /\ Lt64(length(last.pre), last.pos)) =>
    /\ last.thrown
    /\ v = last.pre

\* C6: for n <= length(), remove_prefix(n) advances data() by n and reduces
\* length() by n; remove_suffix(n) leaves data() unchanged and reduces
\* length() by n.
C6_RemovePrefixSuffix ==
  /\ last.op = "remove_prefix" =>
       /\ data(v) = Add64(data(last.pre), last.n)
       /\ length(v) = Sub64(length(last.pre), last.n)
  /\ last.op = "remove_suffix" =>
       /\ data(v) = data(last.pre)
       /\ length(v) = Sub64(length(last.pre), last.n)

\* the call in progress modifies v and is within its precondition
ModifiedInRange ==
  \/ last.op \in {"remove_prefix", "remove_suffix"}
  \/ last.op = "substr" /\ Le64(last.pos, length(last.pre))

\* C7: the witness degrades monotonically: on a view constructed with the
\* witness set, substr, remove_prefix and remove_suffix leave the witness
\* set only if the end address data() + length() of the result is the end
\* address of the view as constructed, and never set a witness that was
\* cleared.
C7_WitnessOnlyAtOriginalEnd ==
  (orig.witness /\ ModifiedInRange /\ Witness(v)) =>
    /\ end(v) = orig.end
    /\ Witness(last.pre)

\* the characters of x and y at the indices below n are pairwise equal
SamePrefix(x, y, n) ==
  \A i \in 0..(n - 1) : at(x, U(i)) = at(y, U(i))

\* the first index below n at which x and y differ
FirstDiff(x, y, n) ==
  CHOOSE i \in 0..(n - 1) :
    /\ at(x, U(i)) # at(y, U(i))
    /\ \A j \in 0..(i - 1) : at(x, U(j)) = at(y, U(j))

\* n1 - n2 as an integer, clamped to the range of int
ClampedDiff(n1, n2) ==
  IF Le64(n2, n1)
  THEN (IF Lt64(U(IntMax), Sub64(n1, n2)) THEN IntMax ELSE ToNat(Sub64(n1, n2)))
  ELSE (IF Lt64(U(IntMax), Sub64(n2, n1)) THEN IntMin ELSE -ToNat(Sub64(n2, n1)))

\* C8: v.compare(w) compares the first min(v.length(), w.length()) characters
\* and has the sign of the first difference; if there is none it is
\* v.length() - w.length() clamped to the range of int, so it is negative,
\* zero or positive as v is shorter than, as long as, or longer than w.
C8_Compare ==
  last.op = "compare" =>
    LET x == last.pre
        y == last.w
        n == ToNat(Min64(length(x), length(y)))
    IN  IF SamePrefix(x, y, n)
        THEN /\ last.ret = ClampedDiff(length(x), length(y))
             /\ (last.ret < 0) <=> Lt64(length(x), length(y))
             /\ (last.ret = 0) <=> (length(x) = length(y))
             /\ (last.ret > 0) <=> Lt64(length(y), length(x))
        ELSE Sgn(last.ret) =
               Sgn(at(x, U(FirstDiff(x, y, n))) - at(y, U(FirstDiff(x, y, n))))

\* a compare whose characters are all equal and whose lengths differ by more
\* than int holds: the result is the clamp
C8_Witness ==
  /\ last.op = "compare"
  /\ last.ret = IntMax
  /\ length(last.pre) = BigLen
  /\ length(last.w) = U(0)

\* C9 as stated: v.compare(v) = 0 and v.compare(w) = -w.compare(v).
C9_Antisymmetry ==
  last.op = "compare" =>
    /\ (data(last.w) = data(last.pre) /\ length(last.w) = length(last.pre))
         => last.ret = 0
    /\ last.ret + compare(last.w, last.pre) = 0

\* the lengths differ by 2^31 or more
LengthsFarApart(x, y) ==
  \/ Lt64(U(IntMax), Sub64(length(x), length(y))) /\ Le64(length(y), length(x))
  \/ Lt64(U(IntMax), Sub64(length(y), length(x))) /\ Le64(length(x), length(y))

\* C9 as amended: v.compare(v) = 0; v.compare(w) and w.compare(v) have
\* opposite signs; when the compared characters are all equal they are each
\* other's negation if the lengths differ by less than 2^31, and are INT_MAX
\* and INT_MIN if the lengths differ by 2^31 or more.
C9_AntisymmetryUpToClamp ==
  last.op = "compare" =>
    LET x   == last.pre
        y   == last.w
        rev == compare(y, x)
    IN  /\ (data(y) = data(x) /\ length(y) = length(x)) => last.ret = 0
        /\ Sgn(last.ret) + Sgn(rev) = 0
        /\ SamePrefix(x, y, ToNat(Min64(length(x), length(y)))) =>
             IF LengthsFarApart(x, y)
             THEN {last.ret, rev} = {IntMin, IntMax}
             ELSE last.ret + rev = 0

\* a compare of a short view with one more than 2^31 characters longer
C9_Witness ==
  /\ last.op = "compare"
  /\ last.ret = IntMin
  /\ compare(last.w, last.pre) = IntMax

\* x and y have the same length and the same characters
SameContent(x, y) ==
  /\ length(x) = length(y)
  /\ SamePrefix(x, y, ToNat(length(x)))

\* C10: v == w if and only if the lengths are equal and the characters are
\* pairwise equal, whatever the witness flags; != is the negation.
C10_Equality ==
  /\ last.op = "op_eq" => (last.bret <=> SameContent(last.pre, last.w))
  /\ last.op = "op_ne" => (last.bret <=> ~SameContent(last.pre, last.w))

\* two non-empty views of equal content and different witness flags compared
\* equal
C10_Witness ==
  /\ last.op = "op_eq"
  /\ last.bret
  /\ length(last.pre) # U(0)
  /\ Witness(last.pre) # Witness(last.w)

\* the n characters of x from index i on are the n characters at str
MatchesAt(x, i, str, n) ==
  \A j \in 0..(n - 1) : Deref(Add64(x.str, U(i + j))) = Deref(Add64(str, U(j)))

\* the indices at which the non-empty pattern y lies within x and matches
Matches(x, y) ==
  IF Lt64(length(x), length(y)) THEN {}
  ELSE {i \in 0..(ToNat(length(x)) - ToNat(length(y))) :
          MatchesAt(x, i, y.str, ToNat(length(y)))}

\* C11: find(pattern, startPos) returns the smallest index i >= startPos with
\* i + |pattern| <= length() at which the pattern matches, or npos when there
\* is none; for an empty pattern that is startPos when startPos <= length()
\* and npos otherwise; for startPos > length() it is npos; and it reads no
\* character outside [data(), data() + length()).
C11_Find ==
  last.op = "find" =>
    LET x    == last.pre
        y    == last.w
        hits == {i \in Matches(x, y) : Le64(last.pos, U(i))}
    IN  /\ IF length(y) = U(0)
           THEN last.found = (IF Le64(last.pos, length(x)) THEN last.pos ELSE npos)
           ELSE IF hits = {} THEN last.found = npos
           ELSE /\ last.found \in {U(i) : i \in hits}
                /\ \A i \in hits : Le64(last.found, U(i))
        /\ Lt64(length(x), last.pos) => last.found = npos
        /\ \A a \in last.reads : Le64(x.str, a) /\ Lt64(a, end(x))

\* a find that passed over a place where the pattern does not match and
\* found it further on
C11_Witness ==
  /\ last.op = "find"
  /\ length(last.w) # U(0)
  /\ last.found # npos
  /\ Lt64(last.pos, last.found)

\* C12: rfind(pattern, endPos) returns the largest index
\* i <= min(endPos, length() - |pattern|) at which the pattern matches, or
\* npos if there is none; if |pattern| > length() it returns npos; with the
\* default endPos = npos it searches the whole view.
C12_Rfind ==
  last.op = "rfind" =>
    LET x    == last.pre
        y    == last.w
        hits == {i \in Matches(x, y) : Le64(U(i), last.pos)}
    IN  IF Lt64(length(x), length(y)) THEN last.found = npos
        ELSE IF length(y) = U(0) THEN last.found = Min64(last.pos, length(x))
        ELSE IF hits = {} THEN last.found = npos
        ELSE /\ last.found \in {U(i) : i \in hits}
             /\ \A i \in hits : Le64(U(i), last.found)

\* an rfind with the default endPos that found the last of two places where
\* the pattern matches
C12_Witness ==
  /\ last.op = "rfind"
  /\ last.pos = npos
  /\ length(last.w) # U(0)
  /\ last.found # npos
  /\ \E i \in Matches(last.pre, last.w) : Lt64(U(i), last.found)


\* C13: the hash of a view is a function of its length() * sizeof(CharT)
\* content bytes only: two views of equal length with the same characters
\* hash to the same value, whatever their witness flags and however each
\* was constructed.
C13_HashOfContent ==
  (/\ last.op = "hash"
   /\ SameContent(last.pre, last.w))
    => last.hpre = last.hw

\* what hash_bytes_ itself guarantees: run with the same seed, it gives the
\* same hash for the same characters, whatever the flags and the addresses
HashBytesOfContent ==
  (/\ last.op = "hash"
   /\ SameContent(last.pre, last.w)
   /\ last.seedpre = last.seedw)
    => last.hpre = last.hw

\* two views that differ in flag, address and construction, of more than a
\* word of equal characters, hashed with the same seed
HashBytesWitness ==
  /\ last.op = "hash"
  /\ SameContent(last.pre, last.w)
  /\ last.seedpre = last.seedw
  /\ Witness(last.pre) # Witness(last.w)
  /\ Lt64(U(8), length(last.pre))

====
